---------------------------- MODULE Spec2Model ----------------------------
(***************************************************************************)
(* ABC inventory slotting: the classifier of utils/abc_slotting.py         *)
(* (ABCSlotter) and the warehouse slot assignment of streamlit_app.py      *)
(* (main, assign_optimized_location).                                      *)
(*                                                                         *)
(* Numbers.  Demands, costs and annual values are integers.  A share       *)
(* (value / total) is kept as the exact fraction <<num, den>>; a division  *)
(* 0 / 0 gives NaN, as pandas does, and every comparison with NaN is       *)
(* false.  Cutoffs are whole percents, as main passes a_cutoff / 100.      *)
(*                                                                         *)
(* Strings.  A Python str is modelled as the sequence of its pieces: a     *)
(* formatted location is the sequence of its characters, a fixed message   *)
(* is one piece holding the whole message.  Two such sequences are equal   *)
(* exactly when the strings are: a message starts with a letter, a         *)
(* location holds digits and dots only.                                    *)
(***************************************************************************)
EXTENDS Integers, Sequences, FiniteSets, TLC

VARIABLES
    \* ---- ABCSlotter instance and the call made on it
    df,                 \* the dataframe handed to perform_abc_analysis
    a_cutoff,           \* class A cutoff, in percent
    b_cutoff,           \* class B cutoff, in percent
    self_result_df,     \* ABCSlotter.result_df: None or the classified table
    last_call,          \* the last method called on the instance
    raised,             \* the exception that call raised, or "none"
    returned,           \* what that call returned, or None
    st_error,           \* main showed its "No valid numeric data" error
    called,             \* perform_abc_analysis has been called on the instance
    analysed,           \* perform_abc_analysis has returned on the instance
    \* ---- main's location assignment pass
    result_df,          \* main's result_df: the classified table, then sorted
    class_to_alleys,    \* class -> list of alleys
    blocks,
    levels,
    positions,
    used_locations,     \* the set of claimed location strings
    pc,                 \* where main is
    row,                \* index of the row apply() is at
    frame,              \* locals of the running, or last, assign_optimized_location
    warehouse_location, \* the locations returned so far, in row order
    prev_location,      \* the warehouse_location column of the previous run
    runs                \* number of completed runs of the pass

slotterVars == <<df, a_cutoff, b_cutoff, self_result_df, last_call, raised,
                 returned, st_error, called, analysed>>

assignVars == <<result_df, class_to_alleys, blocks, levels, positions,
                used_locations, pc, row, frame, warehouse_location,
                prev_location, runs>>

vars == <<slotterVars, assignVars>>

\* Python's None; a variable that may be None holds <<>> or <<value>>
None == <<>>

Some(v) == <<v>>

\* float NaN, the result of 0 / 0; every other share is num / den, den > 0
NaN == [num |-> 0, den |-> 0]

-----------------------------------------------------------------------------
(* Bounds of the model *)

\* longest classified table of the enumerated inputs
MaxRows == 3

\* the assignment pass is run at most this many times on the same input
MaxRuns == 2

(* Program constants *)

\* the probe loop's "safety break"
MAX_ATTEMPTS == 1000


-----------------------------------------------------------------------------
(* Python strings: str.format of the location, and the two messages *)

Digit(k) == <<"0", "1", "2", "3", "4", "5", "6", "7", "8", "9">>[k + 1]

RECURSIVE Dec(_)
\* f"{n}" for n >= 0: the decimal digits, most significant first
Dec(n) == IF n < 10 THEN <<Digit(n)>> ELSE Dec(n \div 10) \o <<Digit(n % 10)>>

\* f"{n:02d}" for n >= 0: at least two digits, padded with a zero
Pad2(n) == IF n < 10 THEN <<"0">> \o Dec(n) ELSE Dec(n)

\* f"{d}.{aa:02d}.{bb:02d}.{ll:02d}.{pp:02d}"
FormatLocation(d, aa, bb, ll, pp) ==
    Dec(d) \o <<".">> \o Pad2(aa) \o <<".">> \o Pad2(bb) \o <<".">>
           \o Pad2(ll) \o <<".">> \o Pad2(pp)

\* (variant: the other message returned)
NoLocationAsCollision == <<"Collision: No available location found">>

\* the string returned for a class without alleys
NO_LOCATION == <<"No location available for this class">>

\* the string returned when the probe loop ends on a claimed location
COLLISION == <<"Collision: No available location found">>

-----------------------------------------------------------------------------
(* pandas on main's result_df: sort_values, groupby().cumcount() *)

Classes == {"A", "B", "C"}

RECURSIVE Descending(_)
\* the numbers of the set S, largest first
Descending(S) ==
    IF S = {} THEN <<>>
    ELSE LET m == CHOOSE x \in S : \A y \in S : y <= x
         IN  <<m>> \o Descending(S \ {m})

\* the sort keys that occur in t, in the order
\* sort_values(['abc_class', 'annual_value'], ascending=[True, False]) puts them
SortKeys(t) ==
    LET vs == Descending({t[i].annual_value : i \in 1..Len(t)})
        OfClass(c) == [k \in 1..Len(vs) |-> <<c, vs[k]>>]
    IN  OfClass("A") \o OfClass("B") \o OfClass("C")

RECURSIVE Gather(_, _)
\* the rows of t key by key; the rows of one key keep their order in t (the
\* sort on several columns is stable)
Gather(t, keys) ==
    IF keys = <<>> THEN <<>>
    ELSE LET HasKey(r) == /\ r.abc_class = Head(keys)[1]
                          /\ r.annual_value = Head(keys)[2]
         IN  SelectSeq(t, HasKey) \o Gather(t, Tail(keys))

\* result_df.sort_values(['abc_class', 'annual_value'], ascending=[True, False])
SortByClassValue(t) == Gather(t, SortKeys(t))

\* (variant: every row the first of its class)
CumCountZero(t) == [k \in 1..Len(t) |-> 0]

\* result_df.groupby('abc_class').cumcount(): for each row the number of
\* earlier rows of its class
CumCount(t) ==
    [k \in 1..Len(t) |->
        Cardinality({j \in 1..(k - 1) : t[j].abc_class = t[k].abc_class})]

\* result_df['rank_within_class'] = ...
WithRank(t) ==
    LET rk == CumCount(t)
    IN  [k \in 1..Len(t) |->
            [item_id |-> t[k].item_id, annual_value |-> t[k].annual_value,
             abc_class |-> t[k].abc_class, rank_within_class |-> rk[k]]]

-----------------------------------------------------------------------------
(* assign_optimized_location *)

RECURSIVE Insert(_, _)
\* x put into the ascending list s, after the elements equal to it
Insert(s, x) ==
    IF s = <<>> THEN <<x>>
    ELSE IF x < Head(s) THEN <<x>> \o s
    ELSE <<Head(s)>> \o Insert(Tail(s), x)

RECURSIVE sorted(_)
\* Python's sorted() on a list of integers
sorted(s) == IF s = <<>> THEN <<>> ELSE Insert(sorted(SubSeq(s, 1, Len(s) - 1)), s[Len(s)])

\* (variant: class A's list not sorted)
AvailableAlleysAsGiven(abc_class) == class_to_alleys[abc_class]

\* available_alleys, once past the "if not available_alleys" test:
\* class_to_alleys.get(abc_class, []), sorted for class A only
AvailableAlleys(abc_class) ==
    IF abc_class = "A" THEN sorted(class_to_alleys[abc_class])
    ELSE class_to_alleys[abc_class]

\* the locals after the location calculation, before the probe loop
DerivedFrame(abc_class, rank_within_class) ==
    LET available_alleys == AvailableAlleys(abc_class)
        alley_index == rank_within_class % Len(available_alleys)
        total_positions_per_alley == blocks * levels * positions
        position_rank0 == rank_within_class \div Len(available_alleys)
        d == IF position_rank0 >= total_positions_per_alley
             THEN (position_rank0 \div total_positions_per_alley) + 1
             ELSE 1
        position_rank == IF position_rank0 >= total_positions_per_alley
                         THEN position_rank0 % total_positions_per_alley
                         ELSE position_rank0
        bb == (position_rank \div (levels * positions)) + 1
        remaining == position_rank % (levels * positions)
        ll == (remaining \div positions) + 1
        pp == (remaining % positions) + 1
        aa == available_alleys[alley_index + 1]
    IN  [abc_class |-> abc_class, d |-> d, alley_index |-> alley_index,
         aa |-> aa, bb |-> bb, ll |-> ll, pp |-> pp,
         location |-> FormatLocation(d, aa, bb, ll, pp), attempts |-> 0]

\* (variant: the level advanced before the position)
ProbedFrameLevelFirst(f) ==
    LET available_alleys == AvailableAlleys(f.abc_class)
        ll1 == f.ll + 1
        ll2 == IF ll1 > levels THEN 1 ELSE ll1
        pp1 == IF ll1 > levels THEN f.pp + 1 ELSE f.pp
        pp2 == IF pp1 > positions THEN 1 ELSE pp1
        bb1 == IF pp1 > positions THEN f.bb + 1 ELSE f.bb
        bb2 == IF bb1 > blocks THEN 1 ELSE bb1
        alley_index == IF bb1 > blocks
                       THEN (f.alley_index + 1) % Len(available_alleys)
                       ELSE f.alley_index
        aa == IF bb1 > blocks THEN available_alleys[alley_index + 1] ELSE f.aa
        d == IF alley_index = 0 /\ bb2 = 1 /\ ll2 = 1 /\ pp2 = 1
             THEN f.d + 1 ELSE f.d
    IN  [abc_class |-> f.abc_class, d |-> d, alley_index |-> alley_index,
         aa |-> aa, bb |-> bb2, ll |-> ll2, pp |-> pp2,
         location |-> FormatLocation(d, aa, bb2, ll2, pp2),
         attempts |-> f.attempts + 1]

\* (variant: the deposit left as it is)
ProbedFrameDepositKept(f) ==
    LET available_alleys == AvailableAlleys(f.abc_class)
        pp1 == f.pp + 1
        pp2 == IF pp1 > positions THEN 1 ELSE pp1
        ll1 == IF pp1 > positions THEN f.ll + 1 ELSE f.ll
        ll2 == IF ll1 > levels THEN 1 ELSE ll1
        bb1 == IF ll1 > levels THEN f.bb + 1 ELSE f.bb
        bb2 == IF bb1 > blocks THEN 1 ELSE bb1
        alley_index == IF bb1 > blocks
                       THEN (f.alley_index + 1) % Len(available_alleys)
                       ELSE f.alley_index
        aa == IF bb1 > blocks THEN available_alleys[alley_index + 1] ELSE f.aa
    IN  [abc_class |-> f.abc_class, d |-> f.d, alley_index |-> alley_index,
         aa |-> aa, bb |-> bb2, ll |-> ll2, pp |-> pp2,
         location |-> FormatLocation(f.d, aa, bb2, ll2, pp2),
         attempts |-> f.attempts + 1]

\* (variant: the position not brought back to 1)
ProbedFrameNoWrap(f) ==
    [f EXCEPT !.pp = f.pp + 1,
              !.location = FormatLocation(f.d, f.aa, f.bb, f.ll, f.pp + 1),
              !.attempts = f.attempts + 1]

\* one pass through the body of the while loop
ProbedFrame(f) ==
    LET available_alleys == AvailableAlleys(f.abc_class)
        pp1 == f.pp + 1
        pp2 == IF pp1 > positions THEN 1 ELSE pp1
        ll1 == IF pp1 > positions THEN f.ll + 1 ELSE f.ll
        ll2 == IF ll1 > levels THEN 1 ELSE ll1
        bb1 == IF ll1 > levels THEN f.bb + 1 ELSE f.bb
        bb2 == IF bb1 > blocks THEN 1 ELSE bb1
        alley_index == IF bb1 > blocks
                       THEN (f.alley_index + 1) % Len(available_alleys)
                       ELSE f.alley_index
        aa == IF bb1 > blocks THEN available_alleys[alley_index + 1] ELSE f.aa
        d == IF alley_index = 0 /\ bb2 = 1 /\ ll2 = 1 /\ pp2 = 1
             THEN f.d + 1 ELSE f.d
    IN  [abc_class |-> f.abc_class, d |-> d, alley_index |-> alley_index,
         aa |-> aa, bb |-> bb2, ll |-> ll2, pp |-> pp2,
         location |-> FormatLocation(d, aa, bb2, ll2, pp2),
         attempts |-> f.attempts + 1]

\* (variant: the loop never entered)
KeepProbingNever(f) == FALSE

\* the condition of the while loop
KeepProbing(f) == f.location \in used_locations /\ f.attempts < MAX_ATTEMPTS

\* (variant: the location not recorded)
MarkUsedNot(used, location) == used

\* used_locations.add(location)
MarkUsed(used, location) == used \cup {location}

\* no call of assign_optimized_location has computed a location
NoFrame == [abc_class |-> "none"]

-----------------------------------------------------------------------------
(* Inputs of the assignment pass *)

\* annual values of the enumerated classified tables
ValueChoices == {1, 2}

\* the classified tables of n rows: sorted by annual value, descending, as
\* perform_abc_analysis returns them; any class on any row
TablesOfLen(n) ==
    {t \in [1..n -> [item_id : 1..n, annual_value : ValueChoices, abc_class : Classes]] :
        /\ \A i \in 1..n : t[i].item_id = i
        /\ \A i \in 1..(n - 1) : t[i].annual_value >= t[i + 1].annual_value}

ClassifiedTables == UNION {TablesOfLen(n) : n \in 0..MaxRows}

\* the multiselects' answers: empty, overlapping and unordered pools
AlleyMaps ==
    [A : {<<>>, <<1, 2>>, <<2, 1>>}, B : {<<>>, <<3, 1>>}, C : {<<>>, <<1>>}]

\* <<blocks, levels, positions>>
Geometries == {<<1, 1, 1>>, <<1, 2, 2>>, <<2, 1, 1>>, <<10, 4, 10>>}

\* a table long enough for a row to run out of probes: classes A and B share
\* alley 1, class A fills more locations than the loop may probe
LongTable ==
    [i \in 1..(MAX_ATTEMPTS + 3) |->
        [item_id |-> i, annual_value |-> 1,
         abc_class |-> IF i <= MAX_ATTEMPTS + 1 THEN "A"
                       ELSE IF i = MAX_ATTEMPTS + 2 THEN "B" ELSE "C"]]

LongAlleyMap == [A |-> <<1>>, B |-> <<1>>, C |-> <<2>>]

LongGeometry == <<10, 4, 10>>

\* pools without a common alley
DisjointAlleyMap == [A |-> <<2, 1>>, B |-> <<3>>, C |-> <<5, 4>>]

\* a table whose last class B row finds its location claimed by the row
\* before it, which was moved there by a probe step
CrowdedTable ==
    [i \in 1..4 |->
        [item_id |-> i, annual_value |-> 1, abc_class |-> IF i = 1 THEN "A" ELSE "B"]]

CrowdedAlleyMap == [A |-> <<1, 2>>, B |-> <<3, 1>>, C |-> <<>>]

CrowdedGeometry == <<1, 1, 1>>

AssignInputs ==
    (ClassifiedTables \X (AlleyMaps \cup {DisjointAlleyMap}) \X Geometries)
        \cup {<<LongTable, LongAlleyMap, LongGeometry>>}
        \cup {<<CrowdedTable, CrowdedAlleyMap, CrowdedGeometry>>}

-----------------------------------------------------------------------------
(* main: the location assignment pass *)

\* (variant: the set kept from one run of main to the next)
FreshUsedNot(used) == used

\* used_locations = set()
FreshUsed(used) == {}

\* (variant: the pass ends at the first row that gets a message)
ReturnsOrAborts(loc) ==
    /\ warehouse_location' = Append(warehouse_location, loc)
    /\ row' = row + 1
    /\ pc' = IF row = Len(result_df) \/ loc \in {NO_LOCATION, COLLISION}
             THEN "done" ELSE "call"

\* assign_optimized_location returns loc for the row at hand: apply() keeps
\* it and goes to the next row
Returns(loc) ==
    /\ warehouse_location' = Append(warehouse_location, loc)
    /\ row' = row + 1
    /\ pc' = IF row = Len(result_df) THEN "done" ELSE "call"

\* the loop is left with the locals f: the collision message, or the
\* location is claimed and returned
LeaveLoop(f) ==
    /\ frame' = f
    /\ IF f.location \in used_locations
       THEN /\ Returns(COLLISION)
            /\ UNCHANGED used_locations
       ELSE /\ used_locations' = MarkUsed(used_locations, f.location)
            /\ Returns(f.location)

\* sort by class and value, a fresh used_locations, the rank column
StartPass ==
    /\ pc = "start"
    /\ result_df' = WithRank(SortByClassValue(result_df))
    /\ used_locations' = FreshUsed(used_locations)
    /\ warehouse_location' = <<>>
    /\ row' = 1
    /\ frame' = NoFrame
    /\ pc' = IF Len(result_df) = 0 THEN "done" ELSE "call"
    /\ UNCHANGED <<class_to_alleys, blocks, levels, positions, prev_location, runs>>
    /\ UNCHANGED slotterVars

\* apply() calls assign_optimized_location on the next row: the message for
\* a class without alleys, or the location calculation and the first test of
\* the while loop
Call ==
    /\ pc = "call"
    /\ LET r == result_df[row]
       IN  IF class_to_alleys[r.abc_class] = <<>>
           THEN /\ Returns(NO_LOCATION)
                /\ frame' = NoFrame
                /\ UNCHANGED used_locations
           ELSE LET f == DerivedFrame(r.abc_class, r.rank_within_class)
                IN  IF KeepProbing(f)
                    THEN /\ frame' = f
                         /\ pc' = "probe"
                         /\ UNCHANGED <<warehouse_location, row, used_locations>>
                    ELSE LeaveLoop(f)
    /\ UNCHANGED <<result_df, class_to_alleys, blocks, levels, positions,
                   prev_location, runs>>
    /\ UNCHANGED slotterVars

\* one iteration of the while loop and the test that follows it
Probe ==
    /\ pc = "probe"
    /\ LET f == ProbedFrame(frame)
       IN  IF KeepProbing(f)
           THEN /\ frame' = f
                /\ UNCHANGED <<warehouse_location, row, used_locations, pc>>
           ELSE LeaveLoop(f)
    /\ UNCHANGED <<result_df, class_to_alleys, blocks, levels, positions,
                   prev_location, runs>>
    /\ UNCHANGED slotterVars

\* the button is clicked again on the same data and configuration: main runs
\* anew, the classifier returns the same table
Rerun ==
    /\ pc = "done"
    /\ runs < MaxRuns
    /\ runs' = runs + 1
    /\ prev_location' = Some(warehouse_location)
    /\ result_df' = self_result_df[1]
    /\ pc' = "start"
    /\ warehouse_location' = <<>>
    /\ UNCHANGED <<class_to_alleys, blocks, levels, positions, used_locations,
                   row, frame>>
    /\ UNCHANGED slotterVars

\* no ABCSlotter call is modelled during the assignment pass
SlotterIdle ==
    /\ df = [columns |-> {}, rows |-> <<>>]
    /\ a_cutoff = 0
    /\ b_cutoff = 0
    /\ last_call = "none"
    /\ raised = "none"
    /\ returned = None
    /\ st_error = FALSE
    /\ called = FALSE
    /\ analysed = FALSE

InitAssign ==
    /\ \E in \in AssignInputs :
        /\ self_result_df = Some(in[1])
        /\ result_df = in[1]
        /\ class_to_alleys = in[2]
        /\ blocks = in[3][1]
        /\ levels = in[3][2]
        /\ positions = in[3][3]
    /\ SlotterIdle
    /\ used_locations = {}
    /\ pc = "start"
    /\ row = 0
    /\ frame = NoFrame
    /\ warehouse_location = <<>>
    /\ prev_location = None
    /\ runs = 1

NextAssign == StartPass \/ Call \/ Probe \/ Rerun

SpecAssign == InitAssign /\ [][NextAssign]_vars

-----------------------------------------------------------------------------
(* ABCSlotter.perform_abc_analysis *)

\* the column names main passes
item_col == "item_id"

demand_col == "annual_demand"

cost_col == "unit_cost"

\* (variant: a share of a zero total taken to be 0)
DivideZeroTotal(x, y) == IF y = 0 THEN [num |-> 0, den |-> 1] ELSE [num |-> x, den |-> y]

\* x / y on floats, for x >= 0 and y >= 0 with y = 0 only when x = 0
Divide(x, y) == IF y = 0 THEN NaN ELSE [num |-> x, den |-> y]

\* x + y on two shares of the same total; NaN if either is
AddShare(x, y) ==
    IF x.den = 0 \/ y.den = 0 THEN NaN ELSE [num |-> x.num + y.num, den |-> x.den]

\* share <= cutoff / 100; False when the share is NaN
AtMost(share, cutoff) == share.den # 0 /\ share.num * 100 <= cutoff * share.den

\* result_df[demand_column] * result_df[cost_column]
AnnualValue(rows) == [i \in 1..Len(rows) |-> rows[i][demand_col] * rows[i][cost_col]]

\* the row orders sort_values('annual_value', ascending=False) may produce:
\* its default sort (quicksort) is not stable, rows of equal value come in
\* any order
DescendingOrders(v) ==
    {p \in [1..Len(v) -> 1..Len(v)] :
        /\ \A k \in 1..(Len(v) - 1) : v[p[k]] >= v[p[k + 1]]
        /\ Cardinality({p[k] : k \in 1..Len(v)}) = Len(v)}

RECURSIVE SumFirst(_, _)
\* v[1] + ... + v[k]
SumFirst(v, k) == IF k = 0 THEN 0 ELSE SumFirst(v, k - 1) + v[k]

\* (variant: the running sum left out)
CumSumNot(shares, k) == shares[k]

RECURSIVE CumSum(_, _)
\* Series.cumsum(), at row k
CumSum(shares, k) ==
    IF k = 1 THEN shares[1] ELSE AddShare(CumSum(shares, k - 1), shares[k])

\* (variant: the two overrides in the other order)
ClassOfBLast(cumulative, a, b) ==
    LET c0 == "C"
        c1 == IF AtMost(cumulative, a) THEN "A" ELSE c0
        c2 == IF AtMost(cumulative, b) THEN "B" ELSE c1
    IN  c2

\* abc_class = 'C', then 'B' where cumulative <= b_cutoff, then 'A' where
\* cumulative <= a_cutoff
ClassOf(cumulative, a, b) ==
    LET c0 == "C"
        c1 == IF AtMost(cumulative, b) THEN "B" ELSE c0
        c2 == IF AtMost(cumulative, a) THEN "A" ELSE c1
    IN  c2

\* the table perform_abc_analysis builds from rows put in the order p, one of
\* DescendingOrders
Classify(rows, p, a, b) ==
    LET n == Len(rows)
        value == AnnualValue(rows)
        sorted_value == [k \in 1..n |-> value[p[k]]]
        total_value == SumFirst(sorted_value, n)
        share == [k \in 1..n |-> Divide(sorted_value[k], total_value)]
        total_items == n
    IN  [k \in 1..n |->
            [item_id |-> rows[p[k]][item_col],
             annual_demand |-> rows[p[k]][demand_col],
             unit_cost |-> rows[p[k]][cost_col],
             annual_value |-> sorted_value[k],
             value_percentage |-> share[k],
             cumulative_value_percentage |-> CumSum(share, k),
             item_percentage |-> Divide(k, total_items),
             abc_class |-> ClassOf(CumSum(share, k), a, b)]]

\* df[demand_column] and df[cost_column] exist
HasColumns(d) == demand_col \in d.columns /\ cost_col \in d.columns

\* (variant: the result not kept on the instance)
StoredNot(table) == None

\* self.result_df = result_df
Stored(table) == Some(table)

\* perform_abc_analysis(df, ..., a_cutoff, b_cutoff) on the instance
perform_abc_analysis ==
    /\ last_call' = "perform_abc_analysis"
    /\ called' = TRUE
    /\ IF ~HasColumns(df)
       THEN /\ raised' = "KeyError"
            /\ returned' = None
            /\ UNCHANGED <<self_result_df, analysed>>
       ELSE \E p \in DescendingOrders(AnnualValue(df.rows)) :
                LET table == Classify(df.rows, p, a_cutoff, b_cutoff)
                IN  /\ raised' = "none"
                    /\ returned' = Some(table)
                    /\ self_result_df' = Stored(table)
                    /\ analysed' = TRUE
    /\ UNCHANGED <<df, a_cutoff, b_cutoff, st_error>>
    /\ UNCHANGED assignVars

\* "if self.result_df is None: raise ValueError(...)"
NoAnalysisYet(stored) == stored = None

\* the message of that ValueError
NO_ANALYSIS == "No analysis results available. Run perform_abc_analysis first."

\* the rows of get_class_summary: groupby('abc_class') has one group for each
\* class that occurs, sort_values puts them in A, B, C order; the two
\* percentages are fractions of 100 times the count, the value
ClassSummary(table) ==
    LET total_items == Len(table)
        all_values == [k \in 1..Len(table) |-> table[k].annual_value]
        total_value == SumFirst(all_values, Len(all_values))
        Row(c) ==
            LET members == SelectSeq(table, LAMBDA r : r.abc_class = c)
                values == [k \in 1..Len(members) |-> members[k].annual_value]
                class_value == SumFirst(values, Len(values))
            IN  IF members = <<>> THEN <<>>
                ELSE <<[abc_class |-> c, item_count |-> Len(members),
                        item_percentage |-> Divide(100 * Len(members), total_items),
                        total_value |-> class_value,
                        value_percentage |-> Divide(100 * class_value, total_value)]>>
    IN  Row("A") \o Row("B") \o Row("C")

get_class_summary ==
    /\ last_call' = "get_class_summary"
    /\ IF NoAnalysisYet(self_result_df)
       THEN /\ raised' = NO_ANALYSIS
            /\ returned' = None
       ELSE /\ raised' = "none"
            /\ returned' = Some(ClassSummary(self_result_df[1]))
    /\ UNCHANGED <<df, a_cutoff, b_cutoff, self_result_df, st_error, called, analysed>>
    /\ UNCHANGED assignVars

\* plot_pareto_chart: the guard, then the drawing; max(self.value_percentage)
\* raises on an empty table
plot_pareto_chart ==
    /\ last_call' = "plot_pareto_chart"
    /\ IF NoAnalysisYet(self_result_df)
       THEN /\ raised' = NO_ANALYSIS
            /\ returned' = None
       ELSE IF self_result_df[1] = <<>>
       THEN /\ raised' = "max() arg is an empty sequence"
            /\ returned' = None
       ELSE /\ raised' = "none"
            /\ returned' = Some("ax")
    /\ UNCHANGED <<df, a_cutoff, b_cutoff, self_result_df, st_error, called, analysed>>
    /\ UNCHANGED assignVars

\* main, from the button to the classification: the columns were checked
\* when the form was drawn; an empty cleaned table is reported with st.error
\* and the analysis goes on, on a new ABCSlotter
main_analysis ==
    /\ HasColumns(df)
    /\ st_error' = (Len(df.rows) = 0)
    /\ last_call' = "perform_abc_analysis"
    /\ called' = TRUE
    /\ analysed' = TRUE
    /\ \E p \in DescendingOrders(AnnualValue(df.rows)) :
            LET table == Classify(df.rows, p, a_cutoff, b_cutoff)
            IN  /\ raised' = "none"
                /\ returned' = Some(table)
                /\ self_result_df' = Stored(table)
    /\ UNCHANGED <<df, a_cutoff, b_cutoff>>
    /\ UNCHANGED assignVars

-----------------------------------------------------------------------------
(* Inputs of the classifier *)

\* longest dataframe of the enumerated inputs
MaxItems == 3

\* <<annual_demand, unit_cost>> of a row
RowChoices == {<<0, 1>>, <<1, 0>>, <<1, 1>>, <<2, 1>>}

\* <<a_cutoff, b_cutoff>> in percent, as the two sliders give them
CutoffChoices == {<<80, 95>>, <<50, 100>>, <<40, 80>>, <<95, 80>>}

\* the cleaned dataframes: numeric, non-negative demand and cost
FramesOfLen(n) ==
    {[columns |-> {item_col, demand_col, cost_col},
      rows |-> [i \in 1..n |-> [item_id |-> i, annual_demand |-> c[i][1],
                                unit_cost |-> c[i][2]]]] :
        c \in [1..n -> RowChoices]}

\* dataframes without the cost column
BadFramesOfLen(n) ==
    {[columns |-> {item_col, demand_col},
      rows |-> [i \in 1..n |-> [item_id |-> i, annual_demand |-> 1]]]}

DataFrames == UNION {FramesOfLen(n) \cup BadFramesOfLen(n) : n \in 0..MaxItems}

\* the assignment pass has not started
AssignIdle ==
    /\ result_df = <<>>
    /\ class_to_alleys = [A |-> <<>>, B |-> <<>>, C |-> <<>>]
    /\ blocks = 1
    /\ levels = 1
    /\ positions = 1
    /\ used_locations = {}
    /\ pc = "idle"
    /\ row = 0
    /\ frame = NoFrame
    /\ warehouse_location = <<>>
    /\ prev_location = None
    /\ runs = 0

\* a new ABCSlotter (__init__) and the call's arguments
InitClassify ==
    /\ df \in DataFrames
    /\ \E c \in CutoffChoices : a_cutoff = c[1] /\ b_cutoff = c[2]
    /\ self_result_df = None
    /\ last_call = "none"
    /\ raised = "none"
    /\ returned = None
    /\ st_error = FALSE
    /\ called = FALSE
    /\ analysed = FALSE
    /\ AssignIdle

NextClassify ==
    perform_abc_analysis \/ get_class_summary \/ plot_pareto_chart \/ main_analysis

SpecClassify == InitClassify /\ [][NextClassify]_vars

-----------------------------------------------------------------------------
(* Properties of the classifier *)

\* the last call was perform_abc_analysis and it returned a table
Classified == last_call = "perform_abc_analysis" /\ raised = "none"

\* the table that call returned
Table == returned[1]

\* annual value of the first k rows of the returned table, and of all of them
ValueUpTo(k) == SumFirst([i \in 1..Len(Table) |-> Table[i].annual_value], k)

ValueOfAll == ValueUpTo(Len(Table))

\* the cumulative value share of row k is <= c percent, is > c percent
\* (a share of a zero total is NaN: neither holds)
ShareAtMost(k, c) == ValueOfAll # 0 /\ ValueUpTo(k) * 100 <= c * ValueOfAll

ShareAbove(k, c) == ValueOfAll # 0 /\ ValueUpTo(k) * 100 > c * ValueOfAll

\* C2: with a_cutoff <= b_cutoff, a row of the classified table is A exactly
\* when its cumulative value share is <= a_cutoff (so a row on the boundary
\* is A), B exactly when the share is > a_cutoff and <= b_cutoff, C
\* otherwise; every row has one class of A, B, C.
C2_ClassByCumulativeShare ==
    (Classified /\ a_cutoff <= b_cutoff) =>
        \A k \in 1..Len(Table) :
            LET isA == ShareAtMost(k, a_cutoff)
                isB == ShareAbove(k, a_cutoff) /\ ShareAtMost(k, b_cutoff)
            IN  /\ Table[k].abc_class \in Classes
                /\ Table[k].abc_class = "A" <=> isA
                /\ Table[k].abc_class = "B" <=> isB
                /\ Table[k].abc_class = "C" <=> (~isA /\ ~isB)

\* a table with a class A row exactly on the a_cutoff boundary, a B row and
\* a C row
C2_Witness ==
    /\ Classified
    /\ a_cutoff <= b_cutoff
    /\ \E k \in 1..Len(Table) :
        /\ ValueOfAll # 0
        /\ ValueUpTo(k) * 100 = a_cutoff * ValueOfAll
        /\ Table[k].abc_class = "A"
    /\ \E k \in 1..Len(Table) : Table[k].abc_class = "B"
    /\ \E k \in 1..Len(Table) : Table[k].abc_class = "C"

\* the annual values of the input rows add up to 0
ZeroTotalInput ==
    /\ HasColumns(df)
    /\ \A i \in 1..Len(df.rows) : df.rows[i][demand_col] * df.rows[i][cost_col] = 0

\* C3: when the total annual value of the input is 0, every row of the
\* classified table is class C, for positive cutoffs.
C3_ZeroTotalAllC ==
    (Classified /\ ZeroTotalInput /\ a_cutoff > 0 /\ b_cutoff > 0) =>
        \A k \in 1..Len(Table) : Table[k].abc_class = "C"

\* a classified zero-total table with a zero-demand row and a zero-cost row
C3_Witness ==
    /\ Classified
    /\ ZeroTotalInput
    /\ a_cutoff > 0
    /\ b_cutoff > 0
    /\ Len(Table) >= 2
    /\ \E k \in 1..Len(Table) : Table[k].annual_demand = 0 /\ Table[k].unit_cost > 0
    /\ \E k \in 1..Len(Table) : Table[k].unit_cost = 0 /\ Table[k].annual_demand > 0
    /\ \A k \in 1..Len(Table) : Table[k].abc_class = "C"

\* the share x is <= the share y (neither NaN)
ShareLeq(x, y) == x.den # 0 /\ y.den # 0 /\ x.num * y.den <= y.num * x.den

\* C4: for a non-empty table of positive total value, the cumulative value
\* share does not decrease along the output and is the whole at the last
\* row: the cumulative annual value there is the total annual value.
C4_CumulativeShareMonotoneToOne ==
    (Classified /\ Len(Table) > 0 /\ ValueOfAll > 0) =>
        /\ \A k \in 1..(Len(Table) - 1) :
            ShareLeq(Table[k].cumulative_value_percentage,
                     Table[k + 1].cumulative_value_percentage)
        /\ LET last == Table[Len(Table)].cumulative_value_percentage
           IN  last.den # 0 /\ last.num = last.den /\ last.num = ValueOfAll
        /\ \A k \in 1..Len(Table) :
            LET c == Table[k].cumulative_value_percentage
            IN  c.num * ValueOfAll = ValueUpTo(k) * c.den

\* a table whose share rises, then stays (a row of value 0 at the end)
C4_Witness ==
    /\ Classified
    /\ Len(Table) >= 3
    /\ ValueOfAll > 0
    /\ Table[1].cumulative_value_percentage # Table[2].cumulative_value_percentage
    /\ Table[Len(Table)].annual_value = 0
    /\ Table[Len(Table)].cumulative_value_percentage.num = ValueOfAll

\* C5: perform_abc_analysis fails, and returns no table, when the row set
\* is empty or the demand or cost column is absent.
C5_FailsOnEmptyOrMissingColumn ==
    (last_call = "perform_abc_analysis" /\ (Len(df.rows) = 0 \/ ~HasColumns(df))) =>
        (raised # "none" /\ returned = None)

Queries == {"get_class_summary", "plot_pareto_chart"}

\* C6 as stated: a query fails with the no-analysis error, and returns
\* nothing, exactly as long as perform_abc_analysis has not run on the
\* instance.
C6_QueryFailsUntilFirstCall ==
    (last_call \in Queries) =>
        IF called THEN raised # NO_ANALYSIS
        ELSE raised = NO_ANALYSIS /\ returned = None

\* C6, amended: a query fails with the no-analysis error, and returns
\* nothing, as long as perform_abc_analysis has not returned on the instance
\* (a call that raised keeps no result); once it has returned, the query does
\* not fail with that error.
C6_QueryFailsUntilAnalysisReturned ==
    (last_call \in Queries) =>
        IF analysed THEN raised # NO_ANALYSIS
        ELSE raised = NO_ANALYSIS /\ returned = None

\* a query answered after an analysis
C6_Witness ==
    /\ last_call \in Queries
    /\ analysed
    /\ raised = "none"
    /\ returned # None

-----------------------------------------------------------------------------
(* Properties of the assignment pass *)

\* the two messages a row can get instead of a location
Sentinels ==
    {<<"No location available for this class">>,
     <<"Collision: No available location found">>}

\* the pool of the class of row k of the sorted table
PoolOfRow(k) == class_to_alleys[result_df[k].abc_class]

\* C1: after a run of the pass, no two rows whose location is not a failure
\* message carry the same location string.
C1_LocationsUnique ==
    (pc = "done") =>
        \A i, j \in 1..Len(warehouse_location) :
            (/\ i < j
             /\ warehouse_location[i] \notin Sentinels
             /\ warehouse_location[j] \notin Sentinels)
                => warehouse_location[i] # warehouse_location[j]

\* a finished run over rows of classes A and B whose pools share an alley,
\* every row placed
C1_Witness ==
    /\ pc = "done"
    /\ Len(warehouse_location) >= 3
    /\ \A k \in 1..Len(warehouse_location) : warehouse_location[k] \notin Sentinels
    /\ \E i, j \in 1..Len(result_df) :
        /\ result_df[i].abc_class = "A"
        /\ result_df[j].abc_class = "B"
        /\ \E x \in 1..Len(PoolOfRow(i)) : \E y \in 1..Len(PoolOfRow(j)) :
            PoolOfRow(i)[x] = PoolOfRow(j)[y]

\* C7 as stated: every row whose class has an empty alley list has the
\* location "no location available".
C7_EmptyPoolQuotedSentinel ==
    (pc \in {"call", "probe", "done"}) =>
        \A k \in 1..Len(warehouse_location) :
            PoolOfRow(k) = <<>> => warehouse_location[k] = <<"no location available">>

\* C7, amended: every row whose class has an empty alley list has the
\* location "No location available for this class", and the step that
\* processes such a row leaves the claimed set as it is.
C7_EmptyPoolSentinel ==
    /\ [](pc \in {"call", "probe", "done"} =>
            \A k \in 1..Len(warehouse_location) :
                PoolOfRow(k) = <<>> =>
                    warehouse_location[k] = <<"No location available for this class">>)
    /\ [][(pc = "call" /\ PoolOfRow(row) = <<>>) =>
            /\ used_locations' = used_locations
            /\ warehouse_location' =
                Append(warehouse_location, <<"No location available for this class">>)]_vars

\* a finished run with a row of a class without alleys and claimed locations
C7_Witness ==
    /\ pc = "done"
    /\ used_locations # {}
    /\ \E k \in 1..Len(warehouse_location) :
        /\ PoolOfRow(k) = <<>>
        /\ warehouse_location[k] = <<"No location available for this class">>
    /\ Cardinality(used_locations) =
        Cardinality({k \in 1..Len(warehouse_location) : PoolOfRow(k) # <<>>})

\* C8: a row that gets a failure message does not end the pass: the next row
\* is called; the rows already answered keep their answer; at the end every
\* row has a location or a message.
C8_FailureDoesNotAbort ==
    /\ [](pc = "done" => Len(warehouse_location) = Len(result_df))
    /\ [][(pc \in {"call", "probe"}) =>
            /\ Len(warehouse_location') >= Len(warehouse_location)
            /\ \A k \in 1..Len(warehouse_location) :
                warehouse_location'[k] = warehouse_location[k]
            /\ (/\ Len(warehouse_location') = Len(warehouse_location) + 1
                /\ warehouse_location'[Len(warehouse_location')] \in Sentinels
                /\ row < Len(result_df))
                    => (pc' = "call" /\ row' = row + 1)]_vars

\* a finished run in which a row got the collision message and a later row
\* was placed
C8_WitnessCollision ==
    /\ pc = "done"
    /\ \E i, j \in 1..Len(warehouse_location) :
        /\ i < j
        /\ warehouse_location[i] = <<"Collision: No available location found">>
        /\ warehouse_location[j] \notin Sentinels

\* a finished run in which a row of a class without alleys comes before a
\* row that was placed
C8_Witness ==
    /\ pc = "done"
    /\ \E i, j \in 1..Len(warehouse_location) :
        /\ i < j
        /\ warehouse_location[i] = <<"No location available for this class">>
        /\ warehouse_location[j] \notin Sentinels

\* C9: a second run of the pass on the same table, alley map and geometry
\* gives every row the location or message the first run gave it.
C9_RerunSameLocations ==
    (pc = "done" /\ prev_location # None) => warehouse_location = prev_location[1]

\* the elements of the list s
Elements(s) == {s[i] : i \in 1..Len(s)}

\* the location C10 states for rank r of class c
C10_Location(c, r) ==
    LET pool == class_to_alleys[c]
        k == Len(pool)
        alley == IF c = "A"
                 THEN CHOOSE x \in Elements(pool) :
                        Cardinality({y \in Elements(pool) : y < x}) = r % k
                 ELSE pool[(r % k) + 1]
        q == r \div k
        slots == blocks * levels * positions
        deposit == 1 + (q \div slots)
        q2 == q % slots
        block == 1 + (q2 \div (levels * positions))
        level == 1 + ((q2 % (levels * positions)) \div positions)
        position == 1 + (q2 % positions)
    IN  FormatLocation(deposit, alley, block, level, position)

\* a finished second run in which a row was placed by probing, away from
\* the location its rank gives
C9_Witness ==
    /\ pc = "done"
    /\ prev_location # None
    /\ \E k \in 1..Len(warehouse_location) :
        /\ warehouse_location[k] \notin Sentinels
        /\ warehouse_location[k] #
            C10_Location(result_df[k].abc_class, result_df[k].rank_within_class)

\* C10: a row whose derived location is not claimed is placed at the
\* location computed from its class rank: alley = alleys[r mod k] (class A's
\* alleys ascending), q = r div k, deposit = 1 + q div slots, and block,
\* level, position from q mod slots; with class A alleys [1, 2] and geometry
\* 10 x 4 x 10 the ranks 0, 1, 2 get 1.01.01.01.01, 1.02.01.01.01,
\* 1.01.01.01.02.
C10_DerivedLocation ==
    /\ [][(/\ pc = "call"
           /\ PoolOfRow(row) # <<>>
           /\ C10_Location(result_df[row].abc_class, result_df[row].rank_within_class)
                \notin used_locations) =>
            warehouse_location' =
                Append(warehouse_location,
                       C10_Location(result_df[row].abc_class,
                                    result_df[row].rank_within_class))]_vars
    /\ []((/\ pc \in {"call", "probe", "done"}
           /\ sorted(class_to_alleys.A) = <<1, 2>>
           /\ <<blocks, levels, positions>> = <<10, 4, 10>>) =>
            \A k \in 1..Len(warehouse_location) :
                result_df[k].abc_class = "A" =>
                    /\ result_df[k].rank_within_class = 0 =>
                        warehouse_location[k] =
                            <<"1", ".", "0", "1", ".", "0", "1", ".", "0", "1", ".", "0", "1">>
                    /\ result_df[k].rank_within_class = 1 =>
                        warehouse_location[k] =
                            <<"1", ".", "0", "2", ".", "0", "1", ".", "0", "1", ".", "0", "1">>
                    /\ result_df[k].rank_within_class = 2 =>
                        warehouse_location[k] =
                            <<"1", ".", "0", "1", ".", "0", "1", ".", "0", "1", ".", "0", "2">>)

\* the example: three class A rows placed in alleys [1, 2] of a 10 x 4 x 10
\* warehouse
C10_Witness ==
    /\ pc = "done"
    /\ class_to_alleys.A = <<1, 2>>
    /\ <<blocks, levels, positions>> = <<10, 4, 10>>
    /\ Len(warehouse_location) >= 3
    /\ result_df[3].abc_class = "A"
    /\ warehouse_location[3] =
        <<"1", ".", "0", "1", ".", "0", "1", ".", "0", "1", ".", "0", "2">>

-----------------------------------------------------------------------------
(* Properties of the probe loop *)

\* the place of the locals f in the walk through the pool of f's class:
\* position fastest, then level, then block, then alley
WalkIndex(f) ==
    ((f.alley_index * blocks + (f.bb - 1)) * levels + (f.ll - 1)) * positions
        + (f.pp - 1)

\* the number of places of that walk
WalkLength(f) == Len(class_to_alleys[f.abc_class]) * blocks * levels * positions

\* the pool of class c in the order the rows of c go through it
PoolInOrder(c) == IF c = "A" THEN sorted(class_to_alleys[c]) ELSE class_to_alleys[c]

\* C11: a row whose derived location is claimed is not placed there; each
\* probe step leaves a claimed location for the next place in the order
\* position, level, block, alley of the class's pool; the row is placed at
\* the first of these locations that is not claimed.  With 1.01.01.01.01
\* claimed, 1.01.01.01.02 not claimed and positions >= 2, the row that
\* derives 1.01.01.01.01 is placed at 1.01.01.01.02.
C11_ProbesInOrderToFirstFree ==
    /\ [](pc = "probe" => frame.location \in used_locations)
    /\ [][(/\ pc = "call"
           /\ PoolOfRow(row) # <<>>
           /\ C10_Location(result_df[row].abc_class, result_df[row].rank_within_class)
                \in used_locations) =>
            /\ pc' = "probe"
            /\ warehouse_location' = warehouse_location
            /\ used_locations' = used_locations
            /\ frame'.attempts = 0
            /\ frame'.location =
                C10_Location(result_df[row].abc_class, result_df[row].rank_within_class)]_vars
    /\ [][(pc = "probe") =>
            /\ frame'.abc_class = frame.abc_class
            /\ WalkIndex(frame') = (WalkIndex(frame) + 1) % WalkLength(frame)
            /\ frame'.aa = PoolInOrder(frame.abc_class)[frame'.alley_index + 1]
            /\ frame'.location =
                FormatLocation(frame'.d, frame'.aa, frame'.bb, frame'.ll, frame'.pp)
            /\ IF frame'.location \notin used_locations
               THEN /\ warehouse_location' = Append(warehouse_location, frame'.location)
                    /\ used_locations' = used_locations \cup {frame'.location}
               ELSE /\ used_locations' = used_locations
                    /\ (frame'.attempts < 1000) =>
                        (pc' = "probe" /\ warehouse_location' = warehouse_location)]_vars
    /\ [][(/\ pc = "probe"
           /\ frame.attempts = 0
           /\ positions >= 2
           /\ frame.location =
                <<"1", ".", "0", "1", ".", "0", "1", ".", "0", "1", ".", "0", "1">>
           /\ <<"1", ".", "0", "1", ".", "0", "1", ".", "0", "1", ".", "0", "2">>
                \notin used_locations) =>
            warehouse_location' =
                Append(warehouse_location,
                       <<"1", ".", "0", "1", ".", "0", "1", ".", "0", "1", ".", "0", "2">>)]_vars

\* a finished run in which the row that derives 1.01.01.01.01, claimed by an
\* earlier row, was placed at 1.01.01.01.02
C11_Witness ==
    /\ pc = "done"
    /\ \E k \in 1..Len(warehouse_location) :
        /\ PoolOfRow(k) # <<>>
        /\ C10_Location(result_df[k].abc_class, result_df[k].rank_within_class) =
            <<"1", ".", "0", "1", ".", "0", "1", ".", "0", "1", ".", "0", "1">>
        /\ warehouse_location[k] =
            <<"1", ".", "0", "1", ".", "0", "1", ".", "0", "1", ".", "0", "2">>

\* some call of assign_optimized_location has computed a location
HasFrame(f) == f.abc_class # "none"

\* C12 as stated: the probe loop of a row makes at most 1000 steps; a row
\* whose 1000th probe is on a claimed location has the location "collision:
\* no available location found", and the claimed set stays as it was.
C12_BoundedProbingQuotedSentinel ==
    /\ [](HasFrame(frame) => frame.attempts <= 1000)
    /\ [](pc = "probe" => frame.attempts < 1000)
    /\ [][(/\ pc = "probe"
           /\ frame'.attempts = 1000
           /\ frame'.location \in used_locations) =>
            /\ warehouse_location' =
                Append(warehouse_location, <<"collision: no available location found">>)
            /\ used_locations' = used_locations]_vars

\* C12, amended: the probe loop of a row makes at most 1000 steps; a row
\* whose 1000th probe is on a claimed location has the location "Collision:
\* No available location found", and the claimed set stays as it was; no
\* other row has that location.
C12_BoundedProbingSentinel ==
    /\ [](HasFrame(frame) => frame.attempts <= 1000)
    /\ [](pc = "probe" => frame.attempts < 1000)
    /\ [][(/\ pc = "probe"
           /\ frame'.attempts = 1000
           /\ frame'.location \in used_locations) =>
            /\ warehouse_location' =
                Append(warehouse_location, <<"Collision: No available location found">>)
            /\ used_locations' = used_locations]_vars
    /\ [][(/\ pc \in {"call", "probe"}
           /\ Len(warehouse_location') = Len(warehouse_location) + 1
           /\ warehouse_location'[Len(warehouse_location')] =
                <<"Collision: No available location found">>) =>
            /\ pc = "probe"
            /\ frame'.attempts = 1000
            /\ frame'.location \in used_locations
            /\ used_locations' = used_locations]_vars

\* the row at hand has just got the collision message after 1000 probes, all
\* on claimed locations; every row before it was placed
C12_Witness ==
    /\ Len(warehouse_location) > 1000
    /\ warehouse_location[Len(warehouse_location)] =
        <<"Collision: No available location found">>
    /\ row = Len(warehouse_location) + 1
    /\ HasFrame(frame)
    /\ frame.attempts = 1000
    /\ frame.location \in used_locations
    /\ Cardinality(used_locations) = Len(warehouse_location) - 1

\* C16: a probe step that ends with alley_index = 0 and block = level =
\* position = 1 adds exactly 1 to the deposit d, every other probe step
\* leaves d as it is; d does not decrease during the probing of a row.
C16_DepositIncrement ==
    /\ [][(pc = "probe") =>
            frame'.d =
                IF /\ frame'.alley_index = 0
                   /\ frame'.bb = 1
                   /\ frame'.ll = 1
                   /\ frame'.pp = 1
                THEN frame.d + 1
                ELSE frame.d]_vars
    /\ [][(pc = "probe") => frame'.d >= frame.d]_vars

\* a row of a class with two alleys placed by one probe step, which went
\* from the second alley back to the first and on to deposit 2
C16_Witness ==
    /\ HasFrame(frame)
    /\ Len(class_to_alleys[frame.abc_class]) = 2
    /\ frame.attempts = 1
    /\ frame.alley_index = 0
    /\ frame.bb = 1 /\ frame.ll = 1 /\ frame.pp = 1
    /\ frame.d = 2
    /\ warehouse_location # <<>>
    /\ warehouse_location[Len(warehouse_location)] = frame.location

\* the locals f hold a location of the warehouse in a pool alley of class c
InWarehouse(f, c) ==
    /\ f.abc_class = c
    /\ f.d >= 1
    /\ f.aa \in Elements(class_to_alleys[c])
    /\ f.bb \in 1..blocks
    /\ f.ll \in 1..levels
    /\ f.pp \in 1..positions
    /\ f.location = FormatLocation(f.d, f.aa, f.bb, f.ll, f.pp)

\* C17: a location given to a row, derived or reached by probe steps, has
\* deposit >= 1, an alley of the pool of the row's class, a block in
\* 1..blocks, a level in 1..levels and a position in 1..positions; so has
\* every location the probing of the row goes through.
C17_LocationInWarehouse ==
    /\ [](pc = "probe" => InWarehouse(frame, result_df[row].abc_class))
    /\ [][(/\ pc \in {"call", "probe"}
           /\ Len(warehouse_location') = Len(warehouse_location) + 1
           /\ warehouse_location'[Len(warehouse_location')] \notin Sentinels) =>
            /\ HasFrame(frame')
            /\ InWarehouse(frame', result_df[row].abc_class)
            /\ warehouse_location'[Len(warehouse_location')] = frame'.location]_vars

\* a row of class B placed in deposit 2 by a probe step that went from the
\* last place of one alley of its pool to the other alley
C17_Witness ==
    /\ pc \in {"call", "done"}
    /\ HasFrame(frame)
    /\ frame.abc_class = "B"
    /\ frame.attempts >= 1
    /\ frame.d = 2
    /\ frame.alley_index = 1
    /\ warehouse_location # <<>>
    /\ warehouse_location[Len(warehouse_location)] = frame.location
    /\ InWarehouse(frame, "B")

\* no two pools have an alley in common, no pool lists an alley twice
DisjointPools ==
    /\ \A c1, c2 \in Classes :
        c1 # c2 => Elements(class_to_alleys[c1]) \cap Elements(class_to_alleys[c2]) = {}
    /\ \A c \in Classes : Cardinality(Elements(class_to_alleys[c])) = Len(class_to_alleys[c])

\* C18: with pairwise disjoint pools, none listing an alley twice, a row of a
\* class with alleys is placed at the location derived from its rank without
\* a probe step, the probe loop is never entered, and no row has the
\* collision message.
C18_DisjointPoolsNoCollision ==
    /\ [](DisjointPools =>
            /\ pc # "probe"
            /\ \A k \in 1..Len(warehouse_location) :
                /\ warehouse_location[k] # <<"Collision: No available location found">>
                /\ PoolOfRow(k) # <<>> =>
                    warehouse_location[k] =
                        C10_Location(result_df[k].abc_class, result_df[k].rank_within_class))
    /\ [][(DisjointPools /\ pc = "call" /\ PoolOfRow(row) # <<>>) =>
            /\ frame'.attempts = 0
            /\ warehouse_location' = Append(warehouse_location, frame'.location)]_vars

\* a finished run with disjoint pools over rows of two classes with alleys,
\* two of the rows in one class, the last of them in deposit 2
C18_Witness ==
    /\ pc = "done"
    /\ DisjointPools
    /\ Len(warehouse_location) >= 3
    /\ \A k \in 1..Len(warehouse_location) : PoolOfRow(k) # <<>>
    /\ \E i, j \in 1..Len(result_df) :
        /\ result_df[i].abc_class # result_df[j].abc_class
        /\ PoolOfRow(i) # <<>>
        /\ PoolOfRow(j) # <<>>
    /\ \E k \in 1..Len(result_df) : result_df[k].rank_within_class = 1
    /\ HasFrame(frame)
    /\ frame.d = 2
    /\ \A k \in 1..Len(warehouse_location) : warehouse_location[k] \notin Sentinels

-----------------------------------------------------------------------------
(* Properties of the classifier's sort and of the class summary *)

\* C13: the classified table is in descending order of annual value, and two
\* rows of equal annual value are in the order they had in the input (the
\* item_id of an input row is its place in the input).
C13_StableDescendingSort ==
    Classified =>
        /\ \A k \in 1..(Len(Table) - 1) :
            Table[k].annual_value >= Table[k + 1].annual_value
        /\ \A i, j \in 1..Len(Table) :
            (i < j /\ Table[i].annual_value = Table[j].annual_value)
                => Table[i].item_id < Table[j].item_id

\* the last call was get_class_summary and it returned a summary
Summarised == last_call = "get_class_summary" /\ raised = "none"

\* the number of rows of class c in the stored classified table
CountOfClass(c) ==
    Cardinality({k \in 1..Len(self_result_df[1]) : self_result_df[1][k].abc_class = c})

\* C14: the class summary of a classified table (of at least one row) has
\* three rows, for A, B and C in this order, also when a class has no row,
\* and the item_count of each is the number of classified rows of the class.
C14_SummaryRowPerClass ==
    (Summarised /\ Len(self_result_df[1]) > 0) =>
        LET summary == returned[1]
        IN  /\ Len(summary) = 3
            /\ summary[1].abc_class = "A"
            /\ summary[2].abc_class = "B"
            /\ summary[3].abc_class = "C"
            /\ \A k \in 1..3 : summary[k].item_count = CountOfClass(summary[k].abc_class)

\* the share x is the number 0 (NaN is not)
IsZero(x) == x.den # 0 /\ x.num = 0

\* C15: when the total annual value of the input is 0, every row of the
\* classified table has the value share 0 and the cumulative value share 0.
C15_ZeroTotalZeroShares ==
    (Classified /\ ZeroTotalInput) =>
        \A k \in 1..Len(Table) :
            /\ IsZero(Table[k].value_percentage)
            /\ IsZero(Table[k].cumulative_value_percentage)

=============================================================================
